---- MODULE Spec2Model ----
(***************************************************************************)
(* A model of patch.py (PairIP Protection Remover): the pipeline of        *)
(* process_apk from the decompile step on, and the patch engine of         *)
(* patch_files (smali method rewriting, native library copying,            *)
(* file_paths.xml rewriting) together with the manifest pruning of step 7. *)
(*                                                                         *)
(* Text is modelled at the level of tokens: a smali line is a string whose *)
(* tokens are given by Tok, an XML document is a sequence of chunks.  The  *)
(* string operations of the code (strip, startswith, ==, in, re.sub) are   *)
(* computed on these token sequences.                                      *)
(***************************************************************************)
EXTENDS Integers, Sequences, FiniteSets, TLC

\* ------------------------------------------------------------------ bounds
\* Longest VMRunner.smali (in lines) of the scanner specification.
MaxVMLines == 5
\* Longest LicenseClient.smali / SignatureCheck.smali (in lines).
MaxLicLines == 3
\* Most elements of a generated AndroidManifest.xml.
MaxManifestElems == 3
\* Most elements of a generated file_paths.xml.
MaxPathElems == 3
\* Most directories under root/lib of the reconciler specification.
MaxLibDirs == 2
\* Most runs of the tool over its own output.
MaxRuns == 2
\* Methods in a well-formed smali file.
MaxMethods == 4

\* ------------------------------------------------------- sequence helpers
Range(s) == { s[k] : k \in 1..Len(s) }

SeqsUpTo(S, n) == UNION { [1..k -> S] : k \in 0..n }

RECURSIVE Flatten(_)
Flatten(ss) == IF ss = <<>> THEN <<>> ELSE Head(ss) \o Flatten(Tail(ss))

\* str.startswith on token sequences.
StartsWith(s, p) == Len(s) >= Len(p) /\ SubSeq(s, 1, Len(p)) = p

\* `p in s`: p occurs in s as a contiguous run.
Contains(s, p) == \E k \in 0..(Len(s) - Len(p)) : SubSeq(s, k + 1, k + Len(p)) = p

\* Whitespace tokens, the ones str.strip() removes and \s matches.
IsWS(t) == t \in {" ", "    ", "\n"}

RECURSIVE LStrip(_)
LStrip(s) == IF s = <<>> THEN s ELSE IF IsWS(Head(s)) THEN LStrip(Tail(s)) ELSE s

RECURSIVE RStrip(_)
RStrip(s) == IF s = <<>> THEN s ELSE IF IsWS(s[Len(s)]) THEN RStrip(SubSeq(s, 1, Len(s) - 1)) ELSE s

Strip(s) == RStrip(LStrip(s))

\* ------------------------------------------------------------ smali lines
\* The lines the scanned files are built from.
L_clinit == ".method static constructor <clinit>()V\n"
L_end == ".end method\n"
L_ann == "    .annotation system Ldalvik/annotation/Signature;\n"
L_endAnn == "    .end annotation\n"
L_instr == "    return-void\n"
L_foo == ".method public foo()V\n"
L_vi == ".method public static verifyIntegrity(Landroid/content/Context;)V\n"
L_vsm == ".method static verifySignatureMatches(Ljava/lang/String;)Z\n"
L_ilc == ".method public initializeLicenseCheck()V\n"
L_cls == ".method private connectToLicensingService()V\n"
\* An overload: the name of a target with another descriptor.
L_vsmOver == ".method static verifySignatureMatches(I)Z\n"
\* A method whose name ends with the name of a target, same descriptor.
L_reIlc == ".method public reinitializeLicenseCheck()V\n"
L_regs == "    .registers 1\n"

\* The tokens of a line.  A line that is not listed holds no token the
\* scanners look for and is one opaque token.
Tok(l) ==
    CASE l = L_clinit -> <<".method", " ", "static", " ", "constructor", " ", "<clinit>()V", "\n">>
      [] l = L_end -> <<".end method", "\n">>
      [] l = L_ann -> <<"    ", ".annotation", " ", "system", " ", "Ldalvik/annotation/Signature;", "\n">>
      [] l = L_endAnn -> <<"    ", ".end annotation", "\n">>
      [] l = L_instr -> <<"    ", "return-void", "\n">>
      [] l = L_foo -> <<".method", " ", "public", " ", "foo", "()V", "\n">>
      [] l = L_vi -> <<".method", " ", "public", " ", "static", " ", "verifyIntegrity", "(Landroid/content/Context;)V", "\n">>
      [] l = L_vsm -> <<".method", " ", "static", " ", "verifySignatureMatches", "(Ljava/lang/String;)Z", "\n">>
      [] l = L_ilc -> <<".method", " ", "public", " ", "initializeLicenseCheck", "()V", "\n">>
      [] l = L_cls -> <<".method", " ", "private", " ", "connectToLicensingService", "()V", "\n">>
      [] l = L_vsmOver -> <<".method", " ", "static", " ", "verifySignatureMatches", "(I)Z", "\n">>
      [] l = L_reIlc -> <<".method", " ", "public", " ", "re", "initializeLicenseCheck", "()V", "\n">>
      [] l = L_regs -> <<"    ", ".registers", " ", "1", "\n">>
      [] l = "\n" -> <<"\n">>
      [] OTHER -> <<l>>

\* --------------------------------------------------- replacement bodies
\* Each replacement line is written followed by '\n'.
new_clinit_block ==
    << L_clinit,
       L_regs,
       "\n",
       "    .line 30\n",
       "    const-string v0, \"pairipcorex\"\n",
       "    invoke-static {v0}, Ljava/lang/System;->loadLibrary(Ljava/lang/String;)V\n",
       "\n",
       "    const-string v0, \"pairipcore\"\n",
       "    invoke-static {v0}, Ljava/lang/System;->loadLibrary(Ljava/lang/String;)V\n",
       "\n",
       L_instr,
       L_end >>

new_verify_signature_block ==
    << L_vsm, L_regs, "\n", "    const/4 p0, 0x1\n", "    return p0\n", L_end >>

new_initialize_license_block == << L_ilc, L_regs, L_instr, L_end >>

new_connect_license_block == << L_cls, L_regs, L_instr, L_end >>

\* What the verifyIntegrity branch appends after the kept declaration line.
verify_integrity_tail == << L_regs, L_instr, L_end >>

\* ------------------------------------------------------ VMRunner scanner
\* line.strip().startswith('.method')
IsMethodLine(l) == StartsWith(Strip(Tok(l)), <<".method">>)

\* line.strip().startswith('.method') and '<clinit>()V' in line
\* (A variant that takes every .method line for the declaration.)
IsClinitDeclAny(l) == IsMethodLine(l)
IsClinitDecl(l) == IsMethodLine(l) /\ Contains(Tok(l), <<"<clinit>()V">>)

\* line.strip() == '.end method'
\* (A variant that also ends the block at .end annotation.)
IsEndMethodOrAnnotation(l) == Strip(Tok(l)) \in { <<".end method">>, <<".end annotation">> }
IsEndMethod(l) == Strip(Tok(l)) = <<".end method">>

\* The for loop over the lines of VMRunner.smali.  start and blocks record
\* the blocks the loop consumed, as <<declaration line, last line>> (the last
\* line is Len(lines) + 1 when the file ends inside the block); they are not
\* state of the code.
RECURSIVE VMScan(_, _, _, _, _, _, _)
VMScan(lines, i, inside_clinit, method_start_found, new_lines, start, blocks) ==
    IF i > Len(lines)
    THEN [new_lines |-> new_lines,
          method_start_found |-> method_start_found,
          blocks |-> IF inside_clinit THEN blocks \cup {<<start, i>>} ELSE blocks]
    ELSE IF ~inside_clinit /\ IsClinitDecl(lines[i])
    THEN VMScan(lines, i + 1, TRUE, TRUE, new_lines \o new_clinit_block, i, blocks)
    ELSE IF inside_clinit
    THEN IF IsEndMethod(lines[i])
         THEN VMScan(lines, i + 1, FALSE, method_start_found, new_lines, start,
                     blocks \cup {<<start, i>>})
         ELSE VMScan(lines, i + 1, TRUE, method_start_found, new_lines, start, blocks)
    ELSE VMScan(lines, i + 1, inside_clinit, method_start_found, Append(new_lines, lines[i]),
                start, blocks)

PatchVMRunnerLines(lines) == VMScan(lines, 1, FALSE, FALSE, <<>>, 0, {})

\* ---------------------------------- LicenseClient / SignatureCheck scanner
T_vi == <<"verifyIntegrity", "(Landroid/content/Context;)V">>
T_vsm == <<"verifySignatureMatches", "(Ljava/lang/String;)Z">>
T_ilc == <<"initializeLicenseCheck", "()V">>
T_cls == <<"connectToLicensingService", "()V">>

\* stripped.startswith('.method') and '<name+descriptor>' in stripped
\* (A variant that compares the method name without the descriptor.)
IsTargetDeclByName(l, target) == IsMethodLine(l) /\ Contains(Strip(Tok(l)), <<target[1]>>)
IsTargetDecl(l, target) == IsMethodLine(l) /\ Contains(Strip(Tok(l)), target)

\* lines[i].strip().startswith('.end method')
\* (A variant that also stops the skip at .end annotation.)
StartsWithEndAny(l) == \E t \in {".end method", ".end annotation"} : StartsWith(Strip(Tok(l)), <<t>>)
StartsWithEndMethod(l) == StartsWith(Strip(Tok(l)), <<".end method">>)

\* while i < len(lines) and not lines[i].strip().startswith('.end method'):
\*     i += 1
\* i += 1
\* (A variant that passes over one line only.)
SkipOneLine(lines, i) == i + 1
RECURSIVE SkipToEnd(_, _)
SkipToEnd(lines, i) ==
    IF i <= Len(lines) /\ ~StartsWithEndMethod(lines[i])
    THEN SkipToEnd(lines, i + 1)
    ELSE i + 1

\* The while loop over the lines of the file.  inside and found are the sets
\* of targets whose inside_* and *_method_found flags are set; blocks records
\* the blocks the loop consumed, as for VMScan.
RECURSIVE LicScan(_, _, _, _, _, _)
LicScan(lines, i, inside, found, new_lines, blocks) ==
    IF i > Len(lines)
    THEN [new_lines |-> new_lines, found |-> found, blocks |-> blocks]
    ELSE IF "vi" \notin inside /\ IsTargetDecl(lines[i], T_vi)
    THEN LicScan(lines, SkipToEnd(lines, i + 1), inside \cup {"vi"}, found \cup {"vi"},
                 Append(new_lines, lines[i]) \o verify_integrity_tail,
                 blocks \cup {<<i, SkipToEnd(lines, i + 1) - 1>>})
    ELSE IF "vsm" \notin inside /\ IsTargetDecl(lines[i], T_vsm)
    THEN LicScan(lines, SkipToEnd(lines, i), inside \cup {"vsm"}, found \cup {"vsm"},
                 new_lines \o new_verify_signature_block,
                 blocks \cup {<<i, SkipToEnd(lines, i) - 1>>})
    ELSE IF "ilc" \notin inside /\ IsTargetDecl(lines[i], T_ilc)
    THEN LicScan(lines, SkipToEnd(lines, i), inside \cup {"ilc"}, found \cup {"ilc"},
                 new_lines \o new_initialize_license_block,
                 blocks \cup {<<i, SkipToEnd(lines, i) - 1>>})
    ELSE IF "cls" \notin inside /\ IsTargetDecl(lines[i], T_cls)
    THEN LicScan(lines, SkipToEnd(lines, i), inside \cup {"cls"}, found \cup {"cls"},
                 new_lines \o new_connect_license_block,
                 blocks \cup {<<i, SkipToEnd(lines, i) - 1>>})
    ELSE LicScan(lines, i + 1, inside, found, Append(new_lines, lines[i]), blocks)

PatchLicenseLines(lines) == LicScan(lines, 1, {}, {}, <<>>, {})

\* ------------------------------------------------------ regular expressions
\* An XML document is a sequence of chunks of text.  A pattern is a sequence
\* of items: a literal chunk, a greedy run of chunks that hold no occurrence
\* of one character ([^>]+, [^<]*), a greedy run of whitespace (\s+, \s*) or
\* a greedy run of anything (.+ under DOTALL).
Lit(t) == [k |-> "lit", t |-> t, min |-> 1]
NotChar(c, min) == [k |-> "not", t |-> c, min |-> min]
Space(min) == [k |-> "ws", t |-> "", min |-> min]
AnyRun(min) == [k |-> "any", t |-> "", min |-> min]

\* The chunks that hold a '<', a '>', a '"'.
ChunksWithLT ==
    { "<activity", "<provider", "<uses-permission", "<meta-data", "</activity>",
      "<external-path", "<EXTERNAL-PATH", "<external-files-path", "<paths>", "</paths>" }
ChunksWithGT == { "/>", ">", "</activity>", "<paths>", "</paths>" }
ChunksWithQuote ==
    { "\"", "android:name=\"", "android:targetActivity=\"", "android:authorities=\"",
      "name=\"", "path=\"", "android:exported=\"false\"" }

HasChar(chunk, c) ==
    CASE c = "<" -> chunk \in ChunksWithLT
      [] c = ">" -> chunk \in ChunksWithGT
      [] c = "\"" -> chunk \in ChunksWithQuote
      [] OTHER -> FALSE

\* Case folding of re.IGNORECASE.
Fold(chunk) == IF chunk = "<EXTERNAL-PATH" THEN "<external-path" ELSE chunk

InClass(chunk, item) ==
    CASE item.k = "not" -> ~HasChar(chunk, item.t)
      [] item.k = "ws" -> IsWS(chunk)
      [] item.k = "any" -> TRUE
      [] OTHER -> FALSE

\* The length of the longest run of chunks of the item's class from pos.
RECURSIVE RunLen(_, _, _)
RunLen(doc, pos, item) ==
    IF pos <= Len(doc) /\ InClass(doc[pos], item)
    THEN 1 + RunLen(doc, pos + 1, item)
    ELSE 0

\* The backtracking match of pat[p..] at pos: the position after the match,
\* or 0 when there is none.  A run takes the most it can and gives back one
\* chunk at a time.
RECURSIVE MatchFrom(_, _, _, _, _)
RECURSIVE TryRun(_, _, _, _, _, _)
MatchFrom(doc, pat, ic, p, pos) ==
    IF p > Len(pat) THEN pos
    ELSE IF pat[p].k = "lit"
    THEN IF pos <= Len(doc) /\ (IF ic THEN Fold(doc[pos]) ELSE doc[pos]) = pat[p].t
         THEN MatchFrom(doc, pat, ic, p + 1, pos + 1)
         ELSE 0
    ELSE TryRun(doc, pat, ic, p, pos, RunLen(doc, pos, pat[p]))

TryRun(doc, pat, ic, p, pos, k) ==
    IF k < pat[p].min THEN 0
    ELSE LET r == MatchFrom(doc, pat, ic, p + 1, pos + k)
         IN  IF r # 0 THEN r ELSE TryRun(doc, pat, ic, p, pos, k - 1)

\* re.sub(pattern, repl, content), with the number of matches replaced
\* (len(re.findall(pattern, content)) on the same content).
RECURSIVE ReSubFrom(_, _, _, _, _, _, _)
ReSubFrom(doc, pat, ic, repl, pos, out, n) ==
    IF pos > Len(doc) THEN [content |-> out, n |-> n]
    ELSE LET e == MatchFrom(doc, pat, ic, 1, pos)
         IN  IF e # 0
             THEN ReSubFrom(doc, pat, ic, repl, e, out \o repl, n + 1)
             ELSE ReSubFrom(doc, pat, ic, repl, pos + 1, Append(out, doc[pos]), n)

ReSub(pat, ic, repl, doc) == ReSubFrom(doc, pat, ic, repl, 1, <<>>, 0)

\* pattern.search(content)
ReSearch(pat, ic, doc) == \E pos \in 1..Len(doc) : MatchFrom(doc, pat, ic, 1, pos) # 0

\* ------------------------------------------------- manifest entry pruner
TokLicenseActivity == "com.pairip.licensecheck.LicenseActivity"
TokLicenseProvider == "com.pairip.licensecheck.LicenseContentProvider"
TokCheckLicense == "com.android.vending.CHECK_LICENSE"

\* r'<activity[^>]+com\.pairip\.licensecheck\.LicenseActivity[^<]+/>'
\* (A variant whose last run is .+ instead of [^<]+.)
pattern1_dotall ==
    << Lit("<activity"), NotChar(">", 1), Lit(TokLicenseActivity), AnyRun(1), Lit("/>") >>
pattern1 ==
    << Lit("<activity"), NotChar(">", 1), Lit(TokLicenseActivity), NotChar("<", 1), Lit("/>") >>

\* r'<provider[^>]+com\.pairip\.licensecheck\.LicenseContentProvider[^<]+/>'
pattern2 ==
    << Lit("<provider"), NotChar(">", 1), Lit(TokLicenseProvider), NotChar("<", 1), Lit("/>") >>

\* r'<uses-permission[^>]+android:name="com\.android\.vending\.CHECK_LICENSE"[^<]*/>'
permission_pattern ==
    << Lit("<uses-permission"), NotChar(">", 1), Lit("android:name=\""), Lit(TokCheckLicense),
       Lit("\""), NotChar("<", 0), Lit("/>") >>

\* Step 7 on the content of AndroidManifest.xml: the content after the three
\* substitutions and the two counters.
PruneManifest(content) ==
    LET r1 == ReSub(pattern1, FALSE, <<>>, content)
        r2 == ReSub(pattern2, FALSE, <<>>, r1.content)
        r3 == ReSub(permission_pattern, FALSE, <<>>, r2.content)
    IN  [content |-> r3.content,
         entries_removed |-> r1.n + r2.n,
         permissions_removed |-> r3.n]

\* ------------------------------------------------- resource path rewriter
\* r'<external-path\s+name="[^"]*"\s+path="Android/data/[^"]*/files/Pictures"\s*/>'
\* with re.IGNORECASE
file_paths_pattern ==
    << Lit("<external-path"), Space(1), Lit("name=\""), NotChar("\"", 0), Lit("\""), Space(1),
       Lit("path=\""), Lit("Android/data/"), NotChar("\"", 0), Lit("/files/Pictures"), Lit("\""),
       Space(0), Lit("/>") >>

\* '<external-files-path name="my_images" path="Pictures/" />'
\* (A variant whose replacement is itself a sensitive element.)
replacement_sensitive ==
    << "<external-path", " ", "name=\"", "my_images", "\"", " ", "path=\"", "Android/data/",
       "/files/Pictures", "\"", " ", "/>" >>
replacement ==
    << "<external-files-path", " ", "name=\"", "my_images", "\"", " ", "path=\"", "Pictures/",
       "\"", " ", "/>" >>

\* The body of the loop over the file_paths.xml files, on one content.
RewriteFilePaths(content) ==
    IF ReSearch(file_paths_pattern, TRUE, content)
    THEN [content |-> ReSub(file_paths_pattern, TRUE, replacement, content).content,
          matched |-> TRUE]
    ELSE [content |-> content, matched |-> FALSE]

\* ------------------------------------------------ architecture reconciler
\* A name of the archive is a path, a sequence of segments ("lib/x86/a.so" is
\* <<"lib", "x86", "a.so">>).
\* file.startswith("lib/") and file.endswith("libpairipcore.so")
NamesCoreSuffix == { "libpairipcore.so", "mylibpairipcore.so" }
IsCoreEntry(path) ==
    /\ Len(path) >= 2
    /\ path[1] = "lib"
    /\ path[Len(path)] \in NamesCoreSuffix

\* arch = file.split("/")[1], over the names of merged_app.apk
DeclaredArchitectures(names) == { path[2] : path \in { q \in names : IsCoreEntry(q) } }

supported_archs == { "armeabi-v7a", "arm64-v8a", "x86", "x86_64" }

so_files_to_copy == << "libpairipcorex.so", "libFirebaseCppApp.so" >>

\* if arch_type in architectures and arch_type in supported_archs
\* (A variant without the test against the archive's architectures.)
CopiesIntoAnySupported(arch_type, archs) == arch_type \in supported_archs
CopiesInto(arch_type, archs) == arch_type \in archs /\ arch_type \in supported_archs

\* ------------------------------------------------------------------ inputs
\* The content of a file that does not exist.
Absent == "<absent>"

NoFile == [present |-> FALSE, lines |-> <<>>]
File(lines) == [present |-> TRUE, lines |-> lines]

\* One directory that os.walk visits under smali/classes*/com/pairip.
Dir(vm, lic, sig) == [vm |-> vm, lic |-> lic, sig |-> sig]

VMAlphabet == { L_clinit, L_end, L_ann, L_endAnn, L_instr, L_foo }
LicAlphabet ==
    { L_vi, L_vsm, L_ilc, L_cls, L_vsmOver, L_reIlc, L_end, L_ann, L_endAnn, L_instr }

ScannerDirs ==
    { Dir(File(ls), NoFile, NoFile) : ls \in SeqsUpTo(VMAlphabet, MaxVMLines) }
    \cup { Dir(NoFile, File(ls), NoFile) : ls \in SeqsUpTo(LicAlphabet, MaxLicLines) }

\* Elements of AndroidManifest.xml.
A_lic ==
    << "<activity", " ", "android:name=\"", TokLicenseActivity, "\"", " ",
       "android:exported=\"false\"", "/>" >>
A_licWrapped ==
    << "<activity", "\n", "    ", "android:exported=\"false\"", "\n", "    ", "android:name=\"",
       TokLicenseActivity, "\"", "\n", "/>" >>
A_licOpen ==
    << "<activity", " ", "android:name=\"", TokLicenseActivity, "\"", ">", "\n", "<meta-data",
       " ", "android:name=\"", "x", "\"", "/>", "</activity>" >>
A_alias ==
    << "<activity", "-alias", " ", "android:name=\"", "x", "\"", " ", "android:targetActivity=\"",
       TokLicenseActivity, "\"", "/>" >>
A_main == << "<activity", " ", "android:name=\"", "com.example.MainActivity", "\"", "/>" >>
A_mainOpen ==
    << "<activity", " ", "android:name=\"", "com.example.MainActivity", "\"", ">", "<meta-data",
       " ", "android:name=\"", "x", "\"", "/>", "</activity>" >>
P_lic ==
    << "<provider", " ", "android:name=\"", TokLicenseProvider, "\"", " ",
       "android:authorities=\"", "com.example.licensecheck", "\"", "/>" >>
P_other == << "<provider", " ", "android:name=\"", "com.example.Provider", "\"", "/>" >>
U_lic == << "<uses-permission", " ", "android:name=\"", TokCheckLicense, "\"", "/>" >>
U_net == << "<uses-permission", " ", "android:name=\"", "android.permission.INTERNET", "\"", "/>" >>

ManifestElems ==
    { A_lic, A_licWrapped, A_licOpen, A_alias, A_main, A_mainOpen, P_lic, P_other, U_lic, U_net }

\* Elements of a file_paths.xml.
F_sens ==
    << "<external-path", " ", "name=\"", "pics", "\"", " ", "path=\"", "Android/data/", "com.example",
       "/files/Pictures", "\"", "/>" >>
F_sensUpper ==
    << "<EXTERNAL-PATH", "\n", "name=\"", "\"", " ", "path=\"", "Android/data/", "/files/Pictures",
       "\"", " ", "/>" >>
F_movies ==
    << "<external-path", " ", "name=\"", "movies", "\"", " ", "path=\"", "Android/data/",
       "com.example", "/files/Movies", "\"", "/>" >>
F_swapped ==
    << "<external-path", " ", "path=\"", "Android/data/", "com.example", "/files/Pictures", "\"", " ",
       "name=\"", "pics", "\"", "/>" >>
F_open ==
    << "<external-path", " ", "name=\"", "pics", "\"", " ", "path=\"", "Android/data/", "com.example",
       "/files/Pictures", "\"", ">" >>

PathElems == { F_sens, F_sensUpper, F_movies, F_swapped, F_open, replacement }

\* A document: its elements, each followed by a line break.
XmlDoc(es) == Flatten([k \in 1..Len(es) |-> es[k] \o <<"\n">>])

\* Names of merged_app.apk.
ArchivePaths ==
    { <<"lib", "arm64-v8a", "libpairipcore.so">>,
      <<"lib", "armeabi-v7a", "libpairipcore.so">>,
      <<"lib", "mips", "mylibpairipcore.so">>,
      <<"lib", "armeabi-v7a", "libother.so">>,
      <<"assets", "armeabi-v7a", "libpairipcore.so">> }

LibNames == { "libpairipcore.so", "libpairipcorex.so", "libFirebaseCppApp.so" }
LibFiles(core, corex) ==
    [f \in LibNames |-> IF f = "libpairipcore.so" THEN core
                        ELSE IF f = "libpairipcorex.so" THEN corex ELSE Absent]

\* One directory that os.walk visits under root/lib: its base name and files.
LibDirNames == { "arm64-v8a", "armeabi-v7a", "mips" }
LibDirChoices ==
    { [name |-> n, files |-> fs] :
        n \in LibDirNames,
        fs \in { LibFiles(Absent, Absent), LibFiles("core", Absent), LibFiles("core", "stale") } }

\* ------------------------------------------------------------------- state
VARIABLES
    pc,             \* the position in process_apk / patch_files
    exit_code,      \* -1 while running, the status of sys.exit
    exit_reason,    \* why the run ended (not state of the code)
    exit_at,        \* the position at which the run ended (not state of the code)
    cwd,            \* the working directory: file name -> content
    archive,        \* merged_app.apk: whether it opens as a zip, and its names
    manifest,       \* merged_app_decompile_xml/AndroidManifest.xml
    smali_root,     \* merged_app_decompile_xml/smali: "absent", "empty", "classes"
    smali,          \* the directories walked under smali/classes*/com/pairip
    libdirs,        \* the directories walked under root/lib
    file_paths,     \* the file_paths.xml files under resources
    tree0,          \* the tree as the decompiler wrote it (not state of the code)
    input,          \* the elements of the generated documents (not state of the code)
    architectures,  \* patch_files: architectures
    flags,          \* patch_files: the *_patched flags
    removed,        \* step 7: entries_removed, permissions_removed
    lib_dirs_found, \* patch_files: lib_dirs_found
    patch_result,   \* step 8: patch_result
    warned,         \* "No files were patched" was logged
    d,              \* the index of the loop in progress
    written,        \* the files of the tree written so far (not state of the code)
    errors,         \* the per-file failures logged (not state of the code)
    blocks,         \* the method blocks the scanners consumed (not state of the code)
    copied,         \* the library copies made (not state of the code)
    run,            \* the number of the run
    faulty,         \* whether file operations can fail in this run
    host,           \* the machine and the input: Java, the jars, the extractor, Termux
    progress_n,     \* process_apk: the counter of the progress bar (tqdm's n)
    steps,          \* the numbers of the step headers logged so far (not state of the code)
    spinner,        \* the spinner threads: the messages of those started, and of those
                    \* whose stop_event is not set
    original        \* the user's files in the input's directory: the .apks, the jars,
                    \* and the result that a Termux run moves back

vars ==
    << pc, exit_code, exit_reason, exit_at, cwd, archive, manifest, smali_root, smali, libdirs,
       file_paths, tree0, input, architectures, flags, removed, lib_dirs_found, patch_result,
       warned, d, written, errors, blocks, copied, run, faulty, host, progress_n, steps,
       spinner, original >>

Tree == [manifest |-> manifest, smali |-> smali, libdirs |-> libdirs, file_paths |-> file_paths]

NoFlags ==
    [vmrunner_patched |-> FALSE, sigcheck_patched |-> FALSE, verify_signature_patched |-> FALSE,
     initialize_license_patched |-> FALSE, connect_license_patched |-> FALSE,
     file_paths_patched |-> FALSE]

NoManifest == [present |-> FALSE, content |-> <<>>]
NoInput == [manifest |-> <<>>, file_paths |-> <<>>]

\* The files of the working directory that the run tests, creates or removes.
signed_apk_patterns ==
    << "out-aligned-signed.apk", "out-signed.apk", "out-debugSigned.apk",
       "out-aligned-debugSigned.apk" >>
WorkFiles ==
    { "libpairipcorex.so", "libFirebaseCppApp.so", "base.apk", "merged_app.apk",
      "merged_app_decompile_xml", "out.apk", "patched.apk" } \cup Range(signed_apk_patterns)

\* The working directory when the patch step starts in a run that began in a
\* clean directory: libFirebaseCppApp.so is the copy of the run's base.apk.
Cwd(corex) ==
    [f \in WorkFiles |->
        CASE f = "libpairipcorex.so" -> corex
          [] f \in {"libFirebaseCppApp.so", "base.apk"} -> "base.apk"
          [] f = "merged_app.apk" -> "merged"
          [] f = "merged_app_decompile_xml" -> "tree"
          [] OTHER -> Absent]

required_jars == { "APKEditor-1.4.3.jar", "uber-apk-signer.jar" }

\* A machine on which every pre-flight dependency is met.
StdHost ==
    [java |-> TRUE, jars |-> required_jars, extractor |-> "unzip", termux |-> FALSE,
     has_base |-> TRUE, so_source |-> TRUE, apk_work |-> FALSE, tmp_name |-> FALSE]

\* The input's directory before a run on host h.
UserFiles(h) == [apks |-> "apks", jars |-> h.jars, patched |-> Absent]

\* total_steps = 11
total_steps == 11

\* The numbers of the log.header("Step n/11: ...") calls of process_apk, in
\* the order of the source.
StepHeaders == << 1, 2, 3, 2, 3, 4, 5, 6, 7, 8, 9, 10, 11 >>

\* The number of step headers logged when a run is at position pc0.
HeadersAt(pc0) ==
    CASE pc0 = "step6" -> 7
      [] pc0 = "step7" -> 8
      [] pc0 = "patch_archs" -> 9
      [] OTHER -> 10

\* The number of progress.update(1) calls made when a run is at position pc0.
UpdatesAt(pc0) ==
    CASE pc0 = "step6" -> 7
      [] pc0 = "step7" -> 8
      [] pc0 = "step9" -> 10
      [] OTHER -> 9

\* No spinner thread was started.
NoSpinner == [started |-> {}, running |-> {}]

\* spinner_thread = threading.Thread(target=show_spinner, args=(stop_event, message))
\* spinner_thread.start(): the thread loops while not stop_event.is_set().
SpinnerStart(message) ==
    [started |-> spinner.started \cup {message}, running |-> spinner.running \cup {message}]

\* stop_event.set(); spinner_thread.join()
SpinnerStop(sp, message) == [sp EXCEPT !.running = @ \ {message}]

\* run_with_spinner: the thread is started, and stop_event is set on the
\* return, on the sys.exit and in the except clause.
RunWithSpinner(message) == SpinnerStop(SpinnerStart(message), message)

\* The spinners of a run on the standard host that is at position pc0.
SpinnerAt(pc0) ==
    [started |-> {"Processing", "Merging APKS"}
                   \cup (IF pc0 = "step6" THEN {} ELSE {"Decompiling APK"})
                   \cup (IF pc0 \in {"step6", "step7", "patch_archs"} THEN {}
                         ELSE {"Patching Smali"}),
     running |-> IF pc0 = "patch_smali" THEN {"Patching Smali"} ELSE {}]

\* The state of the patch at position pc0 of a first run over the given tree.
PatchStateAt(pc0, man, inp, root, sm, libs, fps, arc, flt) ==
    /\ pc = pc0
    /\ exit_code = -1
    /\ exit_reason = "none"
    /\ exit_at = "none"
    /\ archive = arc
    /\ manifest = man
    /\ smali_root = root
    /\ smali = sm
    /\ libdirs = libs
    /\ file_paths = fps
    /\ tree0 = [manifest |-> man, smali |-> sm, libdirs |-> libs, file_paths |-> fps]
    /\ input = inp
    /\ architectures = {}
    /\ flags = NoFlags
    /\ removed = [entries_removed |-> 0, permissions_removed |-> 0]
    /\ lib_dirs_found = 0
    /\ patch_result = FALSE
    /\ warned = FALSE
    /\ d = 1
    /\ written = {}
    /\ errors = {}
    /\ blocks = {}
    /\ copied = {}
    /\ run = 1
    /\ faulty = flt

\* The state at position pc0 of a first run over the given tree.
StateAt(pc0, man, inp, root, sm, libs, fps, arc, corex, flt) ==
    /\ cwd = IF pc0 = "step6" THEN [Cwd(corex) EXCEPT !["merged_app_decompile_xml"] = Absent]
             ELSE Cwd(corex)
    /\ host = StdHost
    /\ progress_n = UpdatesAt(pc0)
    /\ steps = SubSeq(StepHeaders, 1, HeadersAt(pc0))
    /\ spinner = SpinnerAt(pc0)
    /\ original = UserFiles(StdHost)
    /\ PatchStateAt(pc0, man, inp, root, sm, libs, fps, arc, flt)


\* ----------------------------------------------------------------- actions
\* sys.exit(1), or an exception that reaches the handler at the bottom of the
\* script, which exits with status 1.
Exit(reason) ==
    /\ pc' = "exit"
    /\ exit_code' = 1
    /\ exit_reason' = reason
    /\ exit_at' = pc

\* An exception that leaves patch_files while the "Patching Smali" spinner
\* runs: the handler at the bottom of the script calls sys.exit(1), and the
\* interpreter then waits for the spinner thread, which is not a daemon and
\* whose stop event nobody sets.  The run goes no further and delivers no
\* status.
Hang(reason) ==
    /\ pc' = "hung"
    /\ exit_code' = exit_code
    /\ exit_reason' = reason
    /\ exit_at' = pc

Continue(next) ==
    /\ pc' = next
    /\ UNCHANGED <<exit_code, exit_reason, exit_at>>

\* How an I/O operation on one file goes: it succeeds, the file cannot be
\* opened for reading, or it cannot be opened for writing.
IO == IF faulty THEN { "ok", "read", "write" } ELSE { "ok" }

\* except Exception as e: log.error(...) around one file: the failure is
\* logged and the loop goes on with what follows.
\* (A variant in which the failure leaves the loop.)
AfterFileErrorRaise(next) == "exit"
AfterFileError(next) == next

\* Trees the decompiler writes in the runs of the whole pipeline.
PipelineManifests ==
    { <<>>, <<A_main>>, <<A_lic, A_main>>, <<U_lic, A_mainOpen>> }
PipelineSmali ==
    { <<>>,
      << Dir(File(<<L_foo, L_instr, L_end>>), NoFile, NoFile) >>,
      << Dir(File(<<L_clinit, L_instr, L_end>>), NoFile, NoFile) >>,
      << Dir(NoFile, File(<<L_vi, L_instr, L_end>>), File(<<L_vsm, L_instr, L_end>>)) >>,
      << Dir(File(<<L_clinit, L_instr, L_end>>), NoFile, NoFile),
         Dir(NoFile, NoFile, File(<<L_ilc, L_instr, L_end, L_cls, L_instr, L_end>>)) >> }
PipelineLibDirs ==
    { <<>>,
      << [name |-> "arm64-v8a", files |-> LibFiles("core", Absent)] >>,
      << [name |-> "arm64-v8a", files |-> LibFiles("core", Absent)],
         [name |-> "x86", files |-> LibFiles("core", "stale")],
         [name |-> "armeabi-v7a", files |-> LibFiles("core", Absent)] >> }
PipelineFilePaths ==
    { <<>>,
      << [in_res_xml |-> TRUE, elems |-> <<F_sens, F_movies>>] >>,
      << [in_res_xml |-> TRUE, elems |-> <<F_movies>>],
         [in_res_xml |-> FALSE, elems |-> <<F_sens>>] >> }
PipelineArchives ==
    { [ok |-> FALSE, names |-> {}],
      [ok |-> TRUE, names |-> {}],
      [ok |-> TRUE, names |-> { <<"lib", "arm64-v8a", "libpairipcore.so">>,
                                <<"lib", "x86", "libpairipcore.so">> }] }

FileOf(f) == [in_res_xml |-> f.in_res_xml, content |-> XmlDoc(f.elems)]

\* The trees the decompiler writes in the runs of the pipeline.
PipelineTrees ==
    { t \in [mes : PipelineManifests, present : BOOLEAN, root : {"absent", "empty", "classes"},
             sm : PipelineSmali, libs : PipelineLibDirs, fps : PipelineFilePaths] :
        /\ t.present \/ t.mes = <<>>
        /\ t.root = "classes" \/ t.sm = <<>> }

\* Step 6: java -jar APKEditor-1.4.3.jar d -i merged_app.apk, then the test
\* that merged_app_decompile_xml exists.  The tool ends with a non-zero code
\* (run_with_spinner exits), or with zero and no directory, or it writes one
\* of the given trees.
DecompileOver(trees) ==
    /\ pc = "step6"
    /\ steps' = Append(steps, 6)
    /\ \/ /\ \E reason \in {"tool_failed", "no_output"} :
               /\ host.java \/ reason = "tool_failed"
               /\ Exit(reason)
          /\ UNCHANGED <<cwd, manifest, smali_root, smali, libdirs, file_paths, tree0, input,
                         progress_n>>
       \/ \E t \in trees :
            /\ host.java
            /\ cwd' = [cwd EXCEPT !["merged_app_decompile_xml"] = "tree"]
            /\ manifest' = [present |-> t.present, content |-> XmlDoc(t.mes)]
            /\ smali_root' = t.root
            /\ smali' = t.sm
            /\ libdirs' = t.libs
            /\ file_paths' = [k \in 1..Len(t.fps) |-> FileOf(t.fps[k])]
            /\ tree0' = [manifest |-> manifest', smali |-> smali', libdirs |-> libdirs',
                         file_paths |-> file_paths']
            /\ input' = [manifest |-> t.mes,
                         file_paths |-> [k \in 1..Len(t.fps) |-> t.fps[k].elems]]
            /\ progress_n' = progress_n + 1
            /\ Continue("step7")
    /\ UNCHANGED <<archive, architectures, flags, removed, lib_dirs_found, patch_result,
                   warned, d, written, errors, blocks, copied, run, faulty, host>>
    /\ spinner' = RunWithSpinner("Decompiling APK")
    /\ UNCHANGED original

Decompile == DecompileOver(PipelineTrees)

\* Step 7: Modify AndroidManifest.xml.  The reads and the write are in no
\* try block: a failure is an exception that ends the run.
ModifyManifest ==
    /\ pc = "step7"
    /\ steps' = Append(steps, 7)
    /\ \E io \in IO :
         LET r == PruneManifest(manifest.content)
             found == r.entries_removed > 0 \/ r.permissions_removed > 0
         IN  IF ~manifest.present
             THEN /\ Continue("patch_archs")
                  /\ UNCHANGED <<manifest, removed, written>>
             ELSE IF io = "read" \/ (io = "write" /\ found)
             THEN /\ Exit("exception")
                  /\ UNCHANGED <<manifest, removed, written>>
             ELSE /\ Continue("patch_archs")
                  /\ removed' = [entries_removed |-> r.entries_removed,
                                 permissions_removed |-> r.permissions_removed]
                  /\ manifest' = IF found THEN [manifest EXCEPT !.content = r.content]
                                 ELSE manifest
                  /\ written' = IF found THEN written \cup {<<"manifest">>} ELSE written
    /\ progress_n' = IF pc' = "exit" THEN progress_n ELSE progress_n + 1
    /\ UNCHANGED <<cwd, archive, smali_root, smali, libdirs, file_paths, tree0, input,
                   architectures, flags, lib_dirs_found, patch_result, warned, d, errors,
                   blocks, copied, run, faulty, host>>
    /\ UNCHANGED spinner
    /\ UNCHANGED original

\* patch_files: the architectures of merged_app.apk.  A failure to read the
\* archive is caught and leaves the list empty.
VerifyArchitectures ==
    /\ pc = "patch_archs"
    /\ steps' = Append(steps, 8)
    /\ architectures' = IF archive.ok THEN DeclaredArchitectures(archive.names) ELSE {}
    /\ Continue("patch_smali_list")
    /\ UNCHANGED <<cwd, archive, manifest, smali_root, smali, libdirs, file_paths, tree0, input,
                   flags, removed, lib_dirs_found, patch_result, warned, d, written, errors,
                   blocks, copied, run, faulty, host,
                   progress_n>>
    /\ UNCHANGED spinner
    /\ UNCHANGED original

\* patch_files: smali_dirs = [... os.listdir(smali_base_dir) ...].  The
\* listing of a directory that does not exist raises, outside any try block
\* and after spinner_thread.start().
ListSmaliDirs ==
    /\ pc = "patch_smali_list"
    /\ IF smali_root = "absent"
       THEN Hang("exception")
       ELSE Continue(IF smali_root = "classes" /\ smali # <<>> THEN "patch_smali"
                     ELSE "patch_so_check")
    /\ d' = 1
    /\ UNCHANGED <<cwd, archive, manifest, smali_root, smali, libdirs, file_paths, tree0, input,
                   architectures, flags, removed, lib_dirs_found, patch_result, warned, written,
                   errors, blocks, copied, run, faulty,
                   host, progress_n, steps>>
    /\ spinner' = IF pc' = "patch_so_check"
                   THEN SpinnerStop(SpinnerStart("Patching Smali"), "Patching Smali")
                   ELSE SpinnerStart("Patching Smali")
    /\ UNCHANGED original

\* The try block of VMRunner.smali on one file.
VMOutcome(file, io) ==
    LET r == PatchVMRunnerLines(file.lines)
        none == [lines |-> file.lines, wrote |-> FALSE, error |-> FALSE, blocks |-> {}]
    IN  IF ~file.present THEN none
        ELSE IF io = "read" THEN [none EXCEPT !.error = TRUE]
        ELSE IF ~r.method_start_found THEN [none EXCEPT !.blocks = r.blocks]
        ELSE IF io = "write" THEN [none EXCEPT !.error = TRUE, !.blocks = r.blocks]
        ELSE [lines |-> r.new_lines, wrote |-> TRUE, error |-> FALSE, blocks |-> r.blocks]

\* The try block of LicenseClient.smali / SignatureCheck.smali on one file;
\* found holds the targets whose *_patched flag the block sets.
LicOutcome(file, io) ==
    LET r == PatchLicenseLines(file.lines)
        none == [lines |-> file.lines, wrote |-> FALSE, error |-> FALSE, found |-> {},
                 blocks |-> {}]
    IN  IF ~file.present THEN none
        ELSE IF io = "read" THEN [none EXCEPT !.error = TRUE]
        ELSE IF r.found = {} THEN [none EXCEPT !.blocks = r.blocks]
        ELSE IF io = "write" THEN [none EXCEPT !.error = TRUE, !.blocks = r.blocks]
        ELSE [lines |-> r.new_lines, wrote |-> TRUE, error |-> FALSE, found |-> r.found,
              blocks |-> r.blocks]

\* smali_file = 'LicenseClient.smali' if 'LicenseClient.smali' in files
\*              else 'SignatureCheck.smali'
SmaliFile(dir) == IF dir.lic.present THEN "lic" ELSE "sig"

\* patch_files: the body of the os.walk loop for one directory, VMRunner.smali
\* and then LicenseClient.smali or SignatureCheck.smali.
PatchSmaliDir ==
    /\ pc = "patch_smali"
    /\ d <= Len(smali)
    /\ \E iovm \in IO, iolic \in IO :
         LET dir == smali[d]
             which == SmaliFile(dir)
             v == VMOutcome(dir.vm, iovm)
             l == LicOutcome(dir[which], iolic)
             next == IF d < Len(smali) THEN "patch_smali" ELSE "patch_so_check"
             goes == IF v.error \/ l.error THEN AfterFileError(next) ELSE next
         IN  /\ smali' = [smali EXCEPT ![d] =
                            [[dir EXCEPT !.vm.lines = v.lines] EXCEPT ![which].lines = l.lines]]
             /\ flags' = [flags EXCEPT
                            !.vmrunner_patched = @ \/ v.wrote,
                            !.sigcheck_patched = @ \/ "vi" \in l.found,
                            !.verify_signature_patched = @ \/ "vsm" \in l.found,
                            !.initialize_license_patched = @ \/ "ilc" \in l.found,
                            !.connect_license_patched = @ \/ "cls" \in l.found]
             /\ written' = written \cup (IF v.wrote THEN {<<"vm", d>>} ELSE {})
                                   \cup (IF l.wrote THEN {<<which, d>>} ELSE {})
             /\ errors' = errors \cup (IF v.error THEN {<<"vm", d>>} ELSE {})
                                 \cup (IF l.error THEN {<<which, d>>} ELSE {})
             /\ blocks' = blocks \cup { <<"vm", d, b[1], b[2]>> : b \in v.blocks }
                                 \cup { <<which, d, b[1], b[2]>> : b \in l.blocks }
             /\ IF goes = "exit" THEN Exit("exception") ELSE Continue(goes)
    /\ d' = d + 1
    /\ UNCHANGED <<cwd, archive, manifest, smali_root, libdirs, file_paths, tree0, input,
                   architectures, removed, lib_dirs_found, patch_result, warned, copied, run, faulty,
                   host, progress_n, steps>>
    /\ spinner' = IF pc' = "patch_so_check" THEN SpinnerStop(spinner, "Patching Smali")
                   ELSE spinner
    /\ UNCHANGED original

\* patch_files: missing = [f for f in so_files_to_copy if not os.path.exists(...)]
MissingSoFiles ==
    { so_files_to_copy[k] : k \in { j \in 1..Len(so_files_to_copy) : cwd[so_files_to_copy[j]] = Absent } }

\* (A variant that goes from the copy loop to the build.)
AfterLibDirBuild(k) == IF k <= Len(libdirs) THEN "patch_lib_copy" ELSE "step10"
AfterLibDir(k) ==
    IF k <= Len(libdirs) THEN "patch_lib_copy"
    ELSE IF file_paths # <<>> THEN "patch_file_paths" ELSE "patch_return"

CheckSoFiles ==
    /\ pc = "patch_so_check"
    /\ IF MissingSoFiles # {} THEN Exit("missing_so") ELSE Continue(AfterLibDir(1))
    /\ d' = 1
    /\ UNCHANGED <<cwd, archive, manifest, smali_root, smali, libdirs, file_paths, tree0, input,
                   architectures, flags, removed, lib_dirs_found, patch_result, warned, written,
                   errors, blocks, copied, run, faulty,
                   host, progress_n, steps>>
    /\ UNCHANGED spinner
    /\ UNCHANGED original

\* The files of a directory after shutil.copy2 of the first n supplemental
\* libraries into it.
\* (A variant that keeps a file the directory already holds.)
CopyFirstIfAbsent(files, n) ==
    [f \in DOMAIN files |->
        IF files[f] = Absent /\ \E k \in 1..n : so_files_to_copy[k] = f THEN cwd[f] ELSE files[f]]
CopyFirst(files, n) ==
    [f \in DOMAIN files |->
        IF \E k \in 1..n : so_files_to_copy[k] = f THEN cwd[f] ELSE files[f]]

\* patch_files: the body of the os.walk loop over root/lib for one directory.
\* fail is the number of the copy that raises, 0 when none does.
CopyLibsDir ==
    /\ pc = "patch_lib_copy"
    /\ d <= Len(libdirs)
    /\ LET dir == libdirs[d]
           n == Len(so_files_to_copy)
       IN  IF dir.files["libpairipcore.so"] # Absent /\ CopiesInto(dir.name, architectures)
           THEN \E fail \in (IF faulty THEN 0..n ELSE {0}) :
                  LET done == IF fail = 0 THEN n ELSE fail - 1
                  IN  /\ libdirs' = [libdirs EXCEPT ![d].files = CopyFirst(dir.files, done)]
                      /\ copied' = copied \cup { <<d, dir.name, so_files_to_copy[k]>> : k \in 1..done }
                      /\ written' = written \cup { <<"lib", d, so_files_to_copy[k]>> : k \in 1..done }
                      /\ lib_dirs_found' = lib_dirs_found + 1
                      /\ IF fail = 0 THEN Continue(AfterLibDir(d + 1)) ELSE Exit("copy_failed")
           ELSE /\ Continue(AfterLibDir(d + 1))
                /\ UNCHANGED <<libdirs, copied, written, lib_dirs_found>>
    /\ d' = IF d < Len(libdirs) THEN d + 1 ELSE 1
    /\ UNCHANGED <<cwd, archive, manifest, smali_root, smali, file_paths, tree0, input,
                   architectures, flags, removed, patch_result, warned, errors, blocks, run, faulty,
                   host, progress_n, steps>>
    /\ UNCHANGED spinner
    /\ UNCHANGED original

\* patch_files: the body of the os.walk loop over resources for one
\* file_paths.xml; in_res_xml is 'res/xml' in root.
PatchFilePathsFile ==
    /\ pc = "patch_file_paths"
    /\ d <= Len(file_paths)
    /\ \E io \in IO :
         LET f == file_paths[d]
             r == RewriteFilePaths(f.content)
             next == IF d < Len(file_paths) THEN "patch_file_paths" ELSE "patch_return"
             error == f.in_res_xml /\ (io = "read" \/ (io = "write" /\ r.matched))
             wrote == f.in_res_xml /\ ~error /\ r.matched
             goes == IF error THEN AfterFileError(next) ELSE next
         IN  /\ file_paths' = IF wrote THEN [file_paths EXCEPT ![d].content = r.content]
                              ELSE file_paths
             /\ flags' = [flags EXCEPT !.file_paths_patched = @ \/ wrote]
             /\ written' = IF wrote THEN written \cup {<<"file_paths", d>>} ELSE written
             /\ errors' = IF error THEN errors \cup {<<"file_paths", d>>} ELSE errors
             /\ IF goes = "exit" THEN Exit("exception") ELSE Continue(goes)
    /\ d' = d + 1
    /\ UNCHANGED <<cwd, archive, manifest, smali_root, smali, libdirs, tree0, input,
                   architectures, removed, lib_dirs_found, patch_result, warned, blocks, copied,
                   run, faulty,
                   host, progress_n, steps>>
    /\ UNCHANGED spinner
    /\ UNCHANGED original

\* return vmrunner_patched or sigcheck_patched or verify_signature_patched or
\*        initialize_license_patched or connect_license_patched or file_paths_patched
PatchFilesResult(fl) ==
    \/ fl.vmrunner_patched
    \/ fl.sigcheck_patched
    \/ fl.verify_signature_patched
    \/ fl.initialize_license_patched
    \/ fl.connect_license_patched
    \/ fl.file_paths_patched

\* The return of patch_files and the rest of step 8:
\* if not patch_result: log.warning("No files were patched")
\* (A variant in which a false result ends the run.)
ReturnPatchOrAbort ==
    /\ pc = "patch_return"
    /\ patch_result' = PatchFilesResult(flags)
    /\ warned' = ~patch_result'
    /\ IF patch_result' THEN Continue("step9") /\ progress_n' = progress_n + 1
       ELSE Exit("nothing_patched") /\ progress_n' = progress_n
    /\ UNCHANGED <<cwd, archive, manifest, smali_root, smali, libdirs, file_paths, tree0, input,
                   architectures, flags, removed, lib_dirs_found, d, written, errors, blocks,
                   copied, run, faulty, host, steps>>
    /\ UNCHANGED spinner
    /\ UNCHANGED original
ReturnPatch ==
    /\ pc = "patch_return"
    /\ patch_result' = PatchFilesResult(flags)
    /\ progress_n' = progress_n + 1
    /\ warned' = ~patch_result'
    /\ Continue("step9")
    /\ UNCHANGED <<cwd, archive, manifest, smali_root, smali, libdirs, file_paths, tree0, input,
                   architectures, flags, removed, lib_dirs_found, d, written, errors, blocks,
                   copied, run, faulty, host, steps>>
    /\ UNCHANGED spinner
    /\ UNCHANGED original

\* ------------------------------------------- the steps around the patch
\* What the steps outside the patch leave alone.
patch_state ==
    << archive, manifest, smali_root, smali, libdirs, file_paths, tree0, input, architectures,
       flags, removed, lib_dirs_found, patch_result, warned, d, written, errors, blocks, copied,
       run, faulty, host >>

\* log.header("Step n/11: ..."), the step, progress.update(1).
StepDone(n, next) ==
    /\ steps' = Append(steps, n)
    /\ progress_n' = progress_n + 1
    /\ Continue(next)

\* log.header("Step n/11: ..."), then sys.exit(1) inside the step.
StepExit(n, reason) ==
    /\ steps' = Append(steps, n)
    /\ progress_n' = progress_n
    /\ Exit(reason)

\* run_with_spinner(cmd) with exit_on_error=True on a java -jar command: the
\* command ends with a non-zero code (always so when java cannot be run), or
\* with zero and its output file, or with zero and no output file.
\* (A variant in which a command always succeeds.)
ToolAlwaysOk == {"ok"}
ToolOutcomes == IF host.java THEN {"ok", "tool_failed", "no_output"} ELSE {"tool_failed"}

\* main: run_command("java -version", verbose=False, exit_on_error=False).
\* The command runs in a shell, so a missing java is a non-zero code and no
\* exception: run_with_spinner returns and "Java detected" is logged.
CheckJava ==
    /\ pc = "main"
    /\ Continue("check_jars")
    /\ UNCHANGED <<cwd, progress_n, steps>>
    /\ UNCHANGED patch_state
    /\ spinner' = RunWithSpinner("Processing")
    /\ UNCHANGED original

\* process_apk: for jar in required_jars: if not os.path.exists(...): sys.exit(1)
CheckJars ==
    /\ pc = "check_jars"
    /\ IF host.jars # required_jars THEN Exit("missing_jar")
       ELSE Continue(IF host.termux THEN "termux_setup" ELSE "step1")
    /\ UNCHANGED <<cwd, progress_n, steps>>
    /\ UNCHANGED patch_state
    /\ UNCHANGED spinner
    /\ UNCHANGED original

\* process_apk: if is_termux(): setup_termux_workdir() empties ~/apk_work,
\* the input and the jars are copied into it, and libpairipcorex.so is copied
\* from so_path, the input's directory or the script's directory; the run
\* exits when it is in none of them.  When the input's directory is
\* ~/apk_work itself, the input and the jars are among the files removed, and
\* copy_to_termux raises on the input that is no longer there.
SetupTermux ==
    /\ pc = "termux_setup"
    /\ cwd' = [f \in WorkFiles |->
                 IF f = "libpairipcorex.so" /\ host.so_source /\ ~host.apk_work THEN "corex"
                 ELSE Absent]
    /\ original' = IF host.apk_work THEN [apks |-> Absent, jars |-> {}, patched |-> Absent]
                   ELSE original
    /\ IF host.apk_work THEN Exit("setup_failed")
       ELSE IF host.so_source THEN Continue("step1") ELSE Exit("missing_so_source")
    /\ UNCHANGED <<progress_n, steps>>
    /\ UNCHANGED patch_state
    /\ spinner' = RunWithSpinner("Setting up Termux")

\* Step 1: extract_file(apks, "base.apk").  With unzip, run_command is called
\* with exit_on_error=False and extract_file returns True whatever unzip did.
\* With 7z, run_command exits on a non-zero code.  Without either tool,
\* zipfile.ZipFile is looked up on the parameter named zipfile, a str: the
\* AttributeError is caught and extract_file returns False.
ExtractBase ==
    /\ pc = "step1"
    /\ \/ /\ host.extractor = "zipfile"
          /\ StepExit(1, "extract_failed")
          /\ UNCHANGED cwd
       \/ /\ host.extractor = "unzip"
          /\ cwd' = IF host.has_base THEN [cwd EXCEPT !["base.apk"] = "base.apk"] ELSE cwd
          /\ StepDone(1, "step2")
       \/ /\ host.extractor = "7z"
          /\ host.has_base
          /\ cwd' = [cwd EXCEPT !["base.apk"] = "base.apk"]
          /\ StepDone(1, "step2")
       \/ /\ host.extractor = "7z"
          /\ ~host.has_base
          /\ UNCHANGED cwd
          /\ StepExit(1, "tool_failed") \/ StepDone(1, "step2")
    /\ UNCHANGED patch_state
    /\ spinner' = IF host.extractor = "zipfile" THEN spinner ELSE RunWithSpinner("Processing")
    /\ UNCHANGED original

\* Step 2: libFirebaseCppApp.so is created from base.apk when no file of that
\* name exists.
CreateLib(at, next) ==
    /\ pc = at
    /\ IF cwd["libFirebaseCppApp.so"] # Absent
       THEN StepDone(2, next) /\ UNCHANGED cwd
       ELSE IF cwd["base.apk"] # Absent
       THEN /\ cwd' = [cwd EXCEPT !["libFirebaseCppApp.so"] = cwd["base.apk"]]
            /\ StepDone(2, next)
       ELSE StepExit(2, "no_base") /\ UNCHANGED cwd
    /\ UNCHANGED patch_state
    /\ UNCHANGED spinner
    /\ UNCHANGED original

\* Step 3: merged_app.apk and merged_app_decompile_xml are removed.
CleanOld(at, next) ==
    /\ pc = at
    /\ cwd' = [cwd EXCEPT !["merged_app.apk"] = Absent, !["merged_app_decompile_xml"] = Absent]
    /\ StepDone(3, next)
    /\ UNCHANGED patch_state
    /\ UNCHANGED spinner
    /\ UNCHANGED original

CreateLibFirst == CreateLib("step2", "step3")
CleanOldFirst == CleanOld("step3", "step2_again")
\* The source holds steps 2 and 3 a second time.
CreateLibAgain == CreateLib("step2_again", "step3_again")
CleanOldAgain == CleanOld("step3_again", "step4")

\* Step 4: java -jar APKEditor-1.4.3.jar m, then the test that merged_app.apk
\* exists.
Merge ==
    /\ pc = "step4"
    /\ \E out \in ToolOutcomes :
         IF out = "ok"
         THEN /\ cwd' = [cwd EXCEPT !["merged_app.apk"] = "merged"]
              /\ StepDone(4, "step5")
         ELSE StepExit(4, out) /\ UNCHANGED cwd
    /\ UNCHANGED patch_state
    /\ spinner' = RunWithSpinner("Merging APKS")
    /\ UNCHANGED original

\* Step 5: shutil.rmtree(decompile_dir, ignore_errors=True).
PrepareDecompile ==
    /\ pc = "step5"
    /\ cwd' = [cwd EXCEPT !["merged_app_decompile_xml"] = Absent]
    /\ StepDone(5, "step6")
    /\ UNCHANGED patch_state
    /\ UNCHANGED spinner
    /\ UNCHANGED original

\* Step 9: the XML files under resources are read, none is written.
PreprocessXml ==
    /\ pc = "step9"
    /\ StepDone(9, "step10")
    /\ UNCHANGED cwd
    /\ UNCHANGED patch_state
    /\ UNCHANGED spinner
    /\ UNCHANGED original

\* Step 10: out.apk is removed, java -jar APKEditor-1.4.3.jar b, then the
\* test that out.apk exists.
Build ==
    /\ pc = "step10"
    /\ \E out \in ToolOutcomes :
         IF out = "ok"
         THEN /\ cwd' = [cwd EXCEPT !["out.apk"] = "built"]
              /\ StepDone(10, "step11")
         ELSE /\ cwd' = [cwd EXCEPT !["out.apk"] = Absent]
              /\ StepExit(10, out)
    /\ UNCHANGED patch_state
    /\ spinner' = RunWithSpinner("Building APK")
    /\ UNCHANGED original

\* for pattern in signed_apk_patterns: if os.path.exists(pattern): ... break
FirstSigned(files) ==
    LET ks == { k \in 1..Len(signed_apk_patterns) : files[signed_apk_patterns[k]] # Absent }
    IN  IF ks = {} THEN Absent
        ELSE signed_apk_patterns[CHOOSE k \in ks : \A k2 \in ks : k <= k2]

\* shutil.move(src, output_name)
Move(files, src, dst) == [files EXCEPT ![dst] = files[src], ![src] = Absent]

\* Step 11: java -jar uber-apk-signer.jar -a out.apk --overwrite.  A non-zero
\* code exits; otherwise the signer wrote a signed file next to out.apk, or
\* signed out.apk in place, or wrote nothing.  The first signed file found,
\* else out.apk, becomes <name>-patched.apk.
Sign ==
    /\ pc = "step11"
    /\ \E out \in IF host.java THEN {"signed_file", "in_place", "nothing", "tool_failed"}
                  ELSE {"tool_failed"} :
         LET after == CASE out = "signed_file" ->
                             [cwd EXCEPT !["out-aligned-debugSigned.apk"] = "signed"]
                        [] out = "in_place" -> [cwd EXCEPT !["out.apk"] = "signed"]
                        [] OTHER -> cwd
             signed_apk == FirstSigned(after)
         IN  IF out = "tool_failed" THEN StepExit(11, out) /\ UNCHANGED cwd
             ELSE IF signed_apk # Absent
             THEN cwd' = Move(after, signed_apk, "patched.apk") /\ StepDone(11, "cleanup")
             ELSE IF after["out.apk"] # Absent
             THEN cwd' = Move(after, "out.apk", "patched.apk") /\ StepDone(11, "cleanup")
             ELSE cwd' = after /\ StepExit(11, "no_output")
    /\ UNCHANGED patch_state
    /\ spinner' = RunWithSpinner("Signing APK")
    /\ UNCHANGED original

leftovers ==
    { "base.apk", "merged_app.apk", "out.apk", "merged_app_decompile_xml" }
      \cup Range(signed_apk_patterns)

\* The end of process_apk.  In Termux move_result_back moves the result from
\* ~/apk_work to the input's directory.  Then every file of the working
\* directory that matches *.tmp* is removed: outside Termux the working
\* directory is the input's directory, and an input named x.tmp.apks and its
\* result x.tmp-patched.apk match.  log.close_progress("main").
CleanUp ==
    /\ pc = "cleanup"
    /\ IF host.termux
       THEN /\ original' = [original EXCEPT !.patched = cwd["patched.apk"]]
            /\ cwd' = [cwd EXCEPT !["patched.apk"] = Absent]
       ELSE /\ original' = IF host.tmp_name THEN [original EXCEPT !.apks = Absent]
                           ELSE original
            /\ cwd' = IF host.tmp_name THEN [cwd EXCEPT !["patched.apk"] = Absent] ELSE cwd
    /\ Continue("finish")
    /\ UNCHANGED <<progress_n, steps>>
    /\ UNCHANGED patch_state
    /\ UNCHANGED spinner

\* output_name as process_apk returns it: the moved file in Termux, the file
\* of the working directory otherwise.
FinalOutput == IF host.termux THEN original.patched ELSE cwd["patched.apk"]

\* The end of main: the leftovers are deleted, the globs are run again, in
\* Termux ~/apk_work is emptied, and os.path.getsize(output_path) is read
\* for the report: it raises when the result is not there, and the handler
\* at the bottom of the script exits with status 1.
Finish ==
    /\ pc = "finish"
    /\ cwd' = [f \in WorkFiles |->
                 IF f \in leftovers \/ host.termux THEN Absent ELSE cwd[f]]
    /\ IF FinalOutput = Absent
       THEN Exit("exception")
       ELSE /\ pc' = "done"
            /\ exit_code' = 0
            /\ UNCHANGED <<exit_reason, exit_at>>
    /\ UNCHANGED <<progress_n, steps, original>>
    /\ UNCHANGED patch_state
    /\ UNCHANGED spinner

\* ---------------------------------------------------------- specifications
\* The pipeline from the decompile step to the end of the patch step.
Init ==
    \E corex \in {Absent, "corex"}, arc \in PipelineArchives, flt \in BOOLEAN :
        StateAt("step6", NoManifest, NoInput, "absent", <<>>, <<>>, <<>>, arc, corex, flt)

Next ==
    \/ Decompile
    \/ ModifyManifest
    \/ VerifyArchitectures
    \/ ListSmaliDirs
    \/ PatchSmaliDir
    \/ CheckSoFiles
    \/ CopyLibsDir
    \/ PatchFilePathsFile
    \/ ReturnPatch

Spec == Init /\ [][Next]_vars

\* The smali scanners over every file of the bounded alphabets.
InitSmali ==
    \E dir \in ScannerDirs :
        StateAt("patch_smali", NoManifest, NoInput, "classes", <<dir>>, <<>>, <<>>,
                [ok |-> FALSE, names |-> {}], "corex", FALSE)

NextSmali == PatchSmaliDir

SpecSmali == InitSmali /\ [][NextSmali]_vars

\* The manifest pruner over every document of the bounded elements.
InitManifest ==
    \E es \in SeqsUpTo(ManifestElems, MaxManifestElems) :
        StateAt("step7", [present |-> TRUE, content |-> XmlDoc(es)],
                [manifest |-> es, file_paths |-> <<>>], "classes", <<>>, <<>>, <<>>,
                [ok |-> FALSE, names |-> {}], "corex", FALSE)

NextManifest == ModifyManifest

SpecManifest == InitManifest /\ [][NextManifest]_vars

\* The tool run again on the package it built: the decompiler writes the tree
\* the previous run left, and the patch of that tree starts at position pc0.
Rerun(pc0) ==
    /\ pc = "step9"
    /\ run < MaxRuns
    /\ run' = run + 1
    /\ tree0' = Tree
    /\ architectures' = {}
    /\ flags' = NoFlags
    /\ removed' = [entries_removed |-> 0, permissions_removed |-> 0]
    /\ lib_dirs_found' = 0
    /\ patch_result' = FALSE
    /\ warned' = FALSE
    /\ d' = 1
    /\ written' = {}
    /\ errors' = {}
    /\ blocks' = {}
    /\ copied' = {}
    /\ Continue(pc0)
    /\ progress_n' = UpdatesAt(pc0)
    /\ steps' = SubSeq(StepHeaders, 1, HeadersAt(pc0))
    /\ spinner' = SpinnerAt(pc0)
    /\ UNCHANGED <<cwd, archive, manifest, smali_root, smali, libdirs, file_paths, input, faulty,
                   host, original>>

RerunFilePaths == Rerun("patch_file_paths")

\* The resource path rewriter over every document of the bounded elements,
\* applied again to its own output.
InitPaths ==
    \E es \in SeqsUpTo(PathElems, MaxPathElems), inres \in BOOLEAN :
        StateAt("patch_file_paths", NoManifest, [manifest |-> <<>>, file_paths |-> <<es>>],
                "classes", <<>>, <<>>, << [in_res_xml |-> inres, content |-> XmlDoc(es)] >>,
                [ok |-> FALSE, names |-> {}], "corex", FALSE)

NextPaths ==
    \/ PatchFilePathsFile
    \/ ReturnPatch
    \/ RerunFilePaths

SpecPaths == InitPaths /\ [][NextPaths]_vars

\* Methods of well-formed smali files: a declaration, a body, .end method.
VMMethods ==
    { <<L_clinit, L_instr, L_end>>,
      <<L_clinit, L_ann, L_endAnn, L_instr, L_end>>,
      <<L_foo, L_instr, L_end>> }
LicMethods ==
    { <<L_vi, L_instr, L_instr, L_end>>,
      <<L_vsm, L_ann, L_endAnn, L_instr, L_end>>,
      <<L_ilc, L_instr, L_end>>,
      <<L_cls, L_end>>,
      <<L_foo, L_instr, L_end>>,
      <<L_vsmOver, L_instr, L_end>>,
      <<L_reIlc, L_instr, L_end>> }
MethodDirs ==
    { Dir(File(Flatten(ms)), NoFile, NoFile) : ms \in SeqsUpTo(VMMethods, MaxMethods) }
    \cup { Dir(NoFile, File(Flatten(ms)), NoFile) : ms \in SeqsUpTo(LicMethods, MaxMethods) }

RerunSmali == Rerun("patch_smali")

\* The smali patches over every well-formed file of the bounded methods,
\* applied again to their own output.
InitMethods ==
    \E dir \in MethodDirs :
        StateAt("patch_smali", NoManifest, NoInput, "classes", <<dir>>, <<>>, <<>>,
                [ok |-> FALSE, names |-> {}], "corex", FALSE)

NextMethods ==
    \/ PatchSmaliDir
    \/ CheckSoFiles
    \/ ReturnPatch
    \/ RerunSmali

SpecMethods == InitMethods /\ [][NextMethods]_vars

\* The architecture reconciler over the bounded archives and library trees.
InitLibs ==
    \E arc \in { [ok |-> FALSE, names |-> {}] }
                 \cup { [ok |-> TRUE, names |-> ns] : ns \in SUBSET ArchivePaths },
       libs \in SeqsUpTo(LibDirChoices, MaxLibDirs),
       corex \in {Absent, "corex"} :
        StateAt("patch_archs", NoManifest, NoInput, "classes", <<>>, libs, <<>>, arc, corex,
                FALSE)

NextLibs ==
    \/ VerifyArchitectures
    \/ ListSmaliDirs
    \/ CheckSoFiles
    \/ CopyLibsDir

SpecLibs == InitLibs /\ [][NextLibs]_vars

\* The trees the decompiler writes in the runs of the whole script.
RunTrees ==
    { t \in PipelineTrees :
        \/ t.mes = <<>> /\ t.present /\ t.root = "empty" /\ t.libs = <<>> /\ t.fps = <<>>
        \/ /\ t.mes = <<A_lic, A_main>>
           /\ t.root = "classes"
           /\ Len(t.sm) = 2
           /\ Len(t.libs) = 3
           /\ Len(t.fps) = 1
        \/ /\ t.mes = <<A_lic, A_main>>
           /\ t.root \in {"empty", "absent"}
           /\ t.libs = <<>>
           /\ t.fps = <<>> }

DecompileRun == DecompileOver(RunTrees)

\* The machines and inputs of the runs of the whole script.
Hosts ==
    [java : BOOLEAN, jars : {required_jars, {"uber-apk-signer.jar"}},
     extractor : {"unzip", "7z", "zipfile"}, termux : BOOLEAN, has_base : BOOLEAN,
     so_source : BOOLEAN, apk_work : BOOLEAN, tmp_name : BOOLEAN]

\* The whole script, from main to its end, in a working directory that may
\* hold the files an earlier run left.
InitRun ==
    \E h \in Hosts, corex \in {Absent, "corex"}, lib \in {Absent, "old base.apk"},
       base \in {Absent, "old base.apk"} :
        /\ h.so_source \/ h.termux
        /\ h.apk_work => h.termux
        /\ host = h
        /\ cwd = [f \in WorkFiles |->
                    CASE f = "libpairipcorex.so" -> corex
                      [] f = "libFirebaseCppApp.so" -> lib
                      [] f = "base.apk" -> base
                      [] OTHER -> Absent]
        /\ progress_n = 0
        /\ steps = <<>>
        /\ spinner = NoSpinner
        /\ original = UserFiles(h)
        /\ PatchStateAt("main", NoManifest, NoInput, "absent", <<>>, <<>>, <<>>,
                        [ok |-> TRUE, names |-> { <<"lib", "arm64-v8a", "libpairipcore.so">>,
                                                  <<"lib", "x86", "libpairipcore.so">> }],
                        FALSE)

NextRun ==
    \/ CheckJava
    \/ CheckJars
    \/ SetupTermux
    \/ ExtractBase
    \/ CreateLibFirst
    \/ CleanOldFirst
    \/ CreateLibAgain
    \/ CleanOldAgain
    \/ Merge
    \/ PrepareDecompile
    \/ DecompileRun
    \/ ModifyManifest
    \/ VerifyArchitectures
    \/ ListSmaliDirs
    \/ PatchSmaliDir
    \/ CheckSoFiles
    \/ CopyLibsDir
    \/ PatchFilePathsFile
    \/ ReturnPatch
    \/ PreprocessXml
    \/ Build
    \/ Sign
    \/ CleanUp
    \/ Finish

SpecRun == InitRun /\ [][NextRun]_vars

\* The script is one sequential process: once patch_files has returned, the
\* statements that follow it in process_apk are executed.
SpecRunFair ==
    SpecRun /\ WF_vars(ReturnPatch) /\ WF_vars(PreprocessXml) /\ WF_vars(Build)

\* ------------------------------------------------------- terms of the claims
\* A method declaration line: .method, modifiers, then name and descriptor.
DeclaresMethod(l, target) ==
    /\ StartsWith(LStrip(Tok(l)), <<".method">>)
    /\ Contains(Tok(l), <<" ">> \o target)

ClinitTarget == << "<clinit>()V" >>
LicenseTargets == { T_vi, T_vsm, T_ilc, T_cls }

ClinitDecls(ls) == { k \in 1..Len(ls) : DeclaresMethod(ls[k], ClinitTarget) }

IsTerminator(l) == Strip(Tok(l)) = <<".end method">>
IsAnnotationEnd(l) == Strip(Tok(l)) = <<".end annotation">>

\* The terminator of the method declared at line i: the first .end method
\* line after it, Len(ls) + 1 when there is none.
OwnEnd(ls, i) ==
    LET js == { j \in (i + 1)..Len(ls) : IsTerminator(ls[j]) }
    IN  IF js = {} THEN Len(ls) + 1 ELSE CHOOSE j \in js : \A j2 \in js : j <= j2

\* The smali loop is past directory k.
Processed(k) == pc # "patch_smali" \/ d > k

\* The loader stub: load "pairipcorex", load "pairipcore", return-void.
LoaderStub ==
    << ".method static constructor <clinit>()V\n",
       "    .registers 1\n",
       "\n",
       "    .line 30\n",
       "    const-string v0, \"pairipcorex\"\n",
       "    invoke-static {v0}, Ljava/lang/System;->loadLibrary(Ljava/lang/String;)V\n",
       "\n",
       "    const-string v0, \"pairipcore\"\n",
       "    invoke-static {v0}, Ljava/lang/System;->loadLibrary(Ljava/lang/String;)V\n",
       "\n",
       "    return-void\n",
       ".end method\n" >>

PatchPositions ==
    { "patch_archs", "patch_smali_list", "patch_smali", "patch_so_check", "patch_lib_copy",
      "patch_file_paths", "patch_return" }

\* The architectures the archive declares: lib/<arch>/...libpairipcore.so.
ArchiveDeclares(a) ==
    /\ archive.ok
    /\ \E path \in archive.names :
         /\ Len(path) >= 2
         /\ path[1] = "lib"
         /\ path[2] = a
         /\ path[Len(path)] \in { "libpairipcore.so", "mylibpairipcore.so" }

Whitelist == { "armeabi-v7a", "arm64-v8a", "x86", "x86_64" }

\* An element that is one self-closing tag.
SelfClosing(e) == e[Len(e)] = "/>" /\ \A k \in 1..(Len(e) - 1) : ~HasChar(e[k], ">")

\* A self-closing element of the manifest that holds the sensitive token of
\* its kind.
Removable(e) ==
    /\ SelfClosing(e)
    /\ \/ Head(e) = "<activity" /\ TokLicenseActivity \in Range(e)
       \/ Head(e) = "<provider" /\ TokLicenseProvider \in Range(e)
       \/ Head(e) = "<uses-permission"
          /\ Contains(e, <<"android:name=\"", TokCheckLicense, "\"">>)

\* The document of the elements es without the removable ones: what follows
\* a removed element stays.
Pruned(es) ==
    Flatten([k \in 1..Len(es) |-> IF Removable(es[k]) THEN <<"\n">> ELSE es[k] \o <<"\n">>])

\* ------------------------------------------------------------------ claims

\* C1 (as stated): when the patch step finds libpairipcorex.so or
\* libFirebaseCppApp.so missing, the run ends with a non-zero status and the
\* decompiled tree is as the decompiler wrote it.
C1_MissingLibraryLeavesTreeUntouched ==
    (pc = "exit" /\ exit_reason = "missing_so") => (exit_code # 0 /\ Tree = tree0)

\* C2: a library directory receives a copy only if its name is declared by
\* the archive and whitelisted; every other directory stays as the
\* decompiler wrote it.
C2_CopiesOnlyIntoDeclaredWhitelisted ==
    /\ \A c \in copied : ArchiveDeclares(c[2]) /\ c[2] \in Whitelist
    /\ \A k \in 1..Len(libdirs) :
         ~(ArchiveDeclares(libdirs[k].name) /\ libdirs[k].name \in Whitelist)
            => libdirs[k] = tree0.libdirs[k]

\* C2 witness: the copy loop is over, arm64-v8a received a copy and the
\* whitelisted armeabi-v7a, which holds libpairipcore.so and is not declared
\* by the archive, is untouched.
C2_Witness ==
    /\ pc = "patch_return"
    /\ ~ArchiveDeclares("armeabi-v7a")
    /\ \E k1, k2 \in 1..Len(libdirs) :
         /\ libdirs[k1].name = "armeabi-v7a"
         /\ libdirs[k1].files["libpairipcore.so"] # Absent
         /\ libdirs[k1] = tree0.libdirs[k1]
         /\ <<k2, "arm64-v8a", "libpairipcorex.so">> \in copied
         /\ libdirs[k2].files["libpairipcorex.so"] = "corex"

\* C3: a VMRunner.smali with one <clinit>()V block that has its terminator is
\* rewritten to the lines before the block, the loader stub, and the lines
\* after the block; the result holds one <clinit>()V declaration.
C3_ClinitBlockReplacedByLoaderStub ==
    \A k \in 1..Len(smali) :
        LET ls == tree0.smali[k].vm.lines
            out == smali[k].vm.lines
            decls == ClinitDecls(ls)
        IN  ( /\ Processed(k)
              /\ tree0.smali[k].vm.present
              /\ <<"vm", k>> \notin errors
              /\ Cardinality(decls) = 1
              /\ \A i \in decls : OwnEnd(ls, i) <= Len(ls) )
            => \A i \in decls :
                 /\ out = SubSeq(ls, 1, i - 1) \o LoaderStub \o SubSeq(ls, OwnEnd(ls, i) + 1, Len(ls))
                 /\ Cardinality(ClinitDecls(out)) = 1
                 /\ <<"vm", k>> \in written

\* C3 witness: a rewritten VMRunner.smali with lines before and after the
\* <clinit>()V block.
C3_Witness ==
    /\ pc = "patch_so_check"
    /\ tree0.smali[1].vm.lines = <<L_instr, L_clinit, L_instr, L_end, L_foo>>
    /\ smali[1].vm.lines = <<L_instr>> \o LoaderStub \o <<L_foo>>

C5_SecondRewriteChangesNothing ==
    (run >= 2 /\ pc # "patch_file_paths")
        => /\ file_paths = tree0.file_paths
           /\ written = {}
           /\ ~flags.file_paths_patched

\* C5 witness: the second run is over on a file whose sensitive element the
\* first run replaced.
C5_Witness ==
    /\ run = 2
    /\ pc = "step9"
    /\ file_paths[1].in_res_xml
    /\ input.file_paths[1] = <<F_sens, F_movies>>
    /\ file_paths[1].content = XmlDoc(<<replacement, F_movies>>)

\* C6: the pruned manifest is the document without its self-closing elements
\* that hold the sensitive token of their kind; every other element and the
\* text around the removed ones is unchanged.
C6_PrunerRemovesWholeSensitiveElements ==
    (pc # "step7" /\ exit_at # "step7" /\ manifest.present)
        => /\ manifest.content = Pruned(input.manifest)
           /\ removed.entries_removed + removed.permissions_removed
                = Cardinality({ k \in 1..Len(input.manifest) : Removable(input.manifest[k]) })

\* C6 witness: a pruned manifest in which the license activity stood between
\* two other activities.
C6_Witness ==
    /\ pc = "patch_archs"
    /\ input.manifest = <<A_main, A_lic, A_main>>
    /\ manifest.content = XmlDoc(<<A_main>>) \o <<"\n">> \o XmlDoc(<<A_main>>)

\* C7 (as stated): the result that decides the "No files were patched"
\* warning is the OR of the four categories: method rewrite, manifest prune,
\* resource rewrite, library copy.
C7_AggregateIsOrOfFourCategories ==
    pc = "step9"
        => /\ patch_result <=>
                \/ \E w \in written : w[1] \in {"vm", "lic", "sig"}
                \/ <<"manifest">> \in written
                \/ \E w \in written : w[1] = "file_paths"
                \/ copied # {}
           /\ warned <=> ~patch_result

\* C8 (as stated): a scanned smali file that declares none of its target
\* methods is not written and stays as it was, its patched flags stay false
\* and the run goes on.
C8_FileWithoutTargetUntouched ==
    \A k \in 1..Len(smali) : \A f \in {"vm", SmaliFile(tree0.smali[k])} :
        LET ls == tree0.smali[k][f].lines
            none == IF f = "vm" THEN ClinitDecls(ls) = {}
                    ELSE \A i \in 1..Len(ls) : \A t \in LicenseTargets : ~DeclaresMethod(ls[i], t)
        IN  (Processed(k) /\ tree0.smali[k][f].present /\ none)
            => /\ smali[k][f] = tree0.smali[k][f]
               /\ <<f, k>> \notin written
               /\ Len(smali) = 1 => PatchFilesResult(flags) = FALSE
               /\ pc # "exit"

\* C9 (as stated): a block is replaced only if its declaration declares a
\* target: the method name and the descriptor are those of the target.
C9_OnlyTargetDeclarationsReplaced ==
    \A b \in blocks :
        LET l == tree0.smali[b[2]][b[1]].lines[b[3]]
        IN  IF b[1] = "vm" THEN DeclaresMethod(l, ClinitTarget)
            ELSE \E t \in LicenseTargets : DeclaresMethod(l, t)

CopyLoopOver == pc \in {"patch_file_paths", "patch_return", "step9", "step10", "step11", "finish", "done"}

\* C14: after the copy loop of a patch step that goes on, every directory
\* under root/lib that holds libpairipcore.so and whose name is declared by
\* the archive and whitelisted holds libpairipcorex.so and
\* libFirebaseCppApp.so with the content of the working directory's files,
\* whatever it held before.
C14_EligibleDirectoriesHoldBothLibraries ==
    CopyLoopOver =>
        \A k \in 1..Len(libdirs) :
            ( /\ tree0.libdirs[k].files["libpairipcore.so"] # Absent
              /\ ArchiveDeclares(libdirs[k].name)
              /\ libdirs[k].name \in Whitelist )
            => \A so \in {"libpairipcorex.so", "libFirebaseCppApp.so"} :
                 cwd[so] # Absent /\ libdirs[k].files[so] = cwd[so]

\* C14 witness: the patch step is past the copy loop and a declared,
\* whitelisted directory that held a stale libpairipcorex.so now holds the
\* working directory's.
C14_Witness ==
    /\ pc = "patch_return"
    /\ \E k \in 1..Len(libdirs) :
         /\ tree0.libdirs[k].files["libpairipcorex.so"] = "stale"
         /\ tree0.libdirs[k].files["libFirebaseCppApp.so"] = Absent
         /\ libdirs[k].files["libpairipcorex.so"] = "corex"
         /\ libdirs[k].files["libFirebaseCppApp.so"] = "base.apk"
         /\ ArchiveDeclares(libdirs[k].name)

\* The patch step is past its loop over the smali directories.
SmaliLoopOver ==
    pc \in {"patch_so_check", "patch_lib_copy", "patch_file_paths", "patch_return", "step9",
            "step10", "step11", "finish", "done"}

\* A smali file of the kind f declares one of the targets of its kind.
DeclaresTarget(f, ls) ==
    IF f = "vm" THEN ClinitDecls(ls) # {}
    ELSE \E i \in 1..Len(ls) : \E t \in LicenseTargets : DeclaresMethod(ls[i], t)

\* C18 (as stated): every VMRunner.smali, LicenseClient.smali and
\* SignatureCheck.smali under com/pairip that declares a target method is
\* rewritten, also when LicenseClient.smali and SignatureCheck.smali are in
\* the same directory.
C18_EveryRecognizedFileRewritten ==
    SmaliLoopOver =>
        \A k \in 1..Len(smali) : \A f \in {"vm", "lic", "sig"} :
            ( /\ tree0.smali[k][f].present
              /\ <<f, k>> \notin errors
              /\ DeclaresTarget(f, tree0.smali[k][f].lines) )
            => <<f, k>> \in written

\* The replacement of the block of target t declared on line l.
ReplacementOf(t, l) ==
    CASE t = T_vi -> <<l>> \o verify_integrity_tail
      [] t = T_vsm -> new_verify_signature_block
      [] t = T_ilc -> new_initialize_license_block
      [] t = T_cls -> new_connect_license_block

TargetsDeclared(l) == { t \in LicenseTargets : DeclaresMethod(l, t) }

\* The lines from line i on, each block of a declared target replaced by its
\* replacement and every other line as it is.
RECURSIVE TargetsReplaced(_, _)
TargetsReplaced(ls, i) ==
    IF i > Len(ls) THEN <<>>
    ELSE IF TargetsDeclared(ls[i]) # {}
    THEN ReplacementOf(CHOOSE t \in TargetsDeclared(ls[i]) : TRUE, ls[i])
           \o TargetsReplaced(ls, OwnEnd(ls, i) + 1)
    ELSE <<ls[i]>> \o TargetsReplaced(ls, i + 1)

\* Every target is declared at most once, and every declared target has its
\* .end method.
TargetsOnceAndTerminated(ls) ==
    /\ \A t \in LicenseTargets :
         Cardinality({ i \in 1..Len(ls) : DeclaresMethod(ls[i], t) }) <= 1
    /\ \A i \in 1..Len(ls) : TargetsDeclared(ls[i]) # {} => OwnEnd(ls, i) <= Len(ls)

\* C15 (as stated): one pass over a LicenseClient.smali / SignatureCheck.smali
\* holding any of the four targets, each once and terminated, replaces each
\* target's block by its replacement body and emits every other line once,
\* unchanged and in order.
C15_EachTargetReplacedRestUnchanged ==
    \A k \in 1..Len(smali) :
        LET f == SmaliFile(tree0.smali[k])
            ls == tree0.smali[k][f].lines
        IN  ( /\ run = 1
              /\ SmaliLoopOver
              /\ tree0.smali[k][f].present
              /\ <<f, k>> \notin errors
              /\ TargetsOnceAndTerminated(ls) )
            => smali[k][f].lines = TargetsReplaced(ls, 1)

\* C16: the smali rewrites applied to their own output change no line.
C16_SecondSmaliRewriteChangesNothing ==
    (run >= 2 /\ SmaliLoopOver) => smali = tree0.smali

\* C16 witness: the second run is over on a LicenseClient.smali that the
\* first run rewrote and the second run wrote again.
C16_Witness ==
    /\ run = 2
    /\ pc = "step9"
    /\ <<"lic", 1>> \in written
    /\ smali[1].lic.lines =
         <<L_vi>> \o verify_integrity_tail \o <<L_foo, L_instr, L_end>>
           \o new_connect_license_block

\* The number of "Step n/11" headers logged.
HeaderCount(n) == Cardinality({ k \in 1..Len(steps) : steps[k] = n })

\* C11: a patch step that returns false only logs the warning, and the run
\* goes on to the build step.
C11_FalseAggregateStillBuilds ==
    /\ []((pc = "step9" /\ ~patch_result) => (warned /\ exit_code = -1))
    /\ (pc = "patch_return" /\ ~PatchFilesResult(flags)) ~> (HeaderCount(10) = 1)

\* C11 witness: the build step was invoked in a run whose patch step
\* returned false.
C11_Witness ==
    /\ pc = "step11"
    /\ ~patch_result
    /\ warned
    /\ HeaderCount(10) = 1
    /\ cwd["out.apk"] = "built"

\* C12: a merge, decompile, build or sign command that fails ends the run
\* with a non-zero status at its step: a run gets past one of these steps
\* only with java and with the step's output, nothing is patched after a
\* failed decompile, nothing is signed after a failed build, and no patched
\* package is written after a failed sign.
C12_FailedToolEndsRun ==
    /\ (pc = "exit" /\ exit_reason \in {"tool_failed", "no_output"})
         => /\ exit_code # 0
            /\ exit_at \in {"step1", "step4", "step6", "step10", "step11"}
            /\ cwd["patched.apk"] = Absent
            /\ exit_at \in {"step1", "step4", "step6"} => (written = {} /\ copied = {})
            /\ exit_at \in {"step1", "step4", "step6", "step10"} => HeaderCount(11) = 0
            /\ exit_at \in {"step1", "step4"} => HeaderCount(6) = 0
    /\ pc \in {"step5", "step6"} => (host.java /\ cwd["merged_app.apk"] = "merged")
    /\ pc \in {"step7"} \cup PatchPositions
         => (host.java /\ cwd["merged_app_decompile_xml"] = "tree")
    /\ pc = "step11" => (host.java /\ cwd["out.apk"] = "built")
    /\ pc \in {"cleanup", "finish", "done"} => host.java
    /\ pc = "cleanup" => cwd["patched.apk"] # Absent

\* C12 witness: the build command failed after a patch that wrote files; the
\* run ended there, unsigned and without a patched package.
C12_Witness ==
    /\ pc = "exit"
    /\ exit_at = "step10"
    /\ exit_reason = "tool_failed"
    /\ written # {}
    /\ HeaderCount(11) = 0
    /\ cwd["patched.apk"] = Absent

\* C13 (as stated): on a machine without java, or without one of the two
\* jars, the run does nothing but end with a non-zero status: no step
\* starts and no file of the working directory changes.
C13_MissingPreflightEndsBeforeAnyStep ==
    [][(~host.java \/ host.jars # required_jars)
         => /\ cwd' = cwd
            /\ steps' = <<>>
            /\ pc' \in {"check_jars", "exit"}
            /\ pc' = "exit" => exit_code' # 0]_vars

\* C17: the decompiled tree is modified only between the decompile step and
\* the build step; the build step is invoked at most once, after the patch
\* step has returned.
C17_TreeModifiedBetweenDecompileAndBuild ==
    [][/\ (Tree' # Tree /\ pc # "step6")
            => /\ pc \in {"step7"} \cup PatchPositions
               /\ HeaderCount(6) = 1
               /\ cwd["merged_app_decompile_xml"] = "tree"
               /\ HeaderCount(10)' = 0
       /\ HeaderCount(10)' # HeaderCount(10)
            => /\ HeaderCount(10) = 0
               /\ HeaderCount(10)' = 1
               /\ HeaderCount(8) = 1
               /\ HeaderCount(9) = 1
               /\ pc = "step10"]_vars

\* C17 witness: the build step was invoked after the manifest was pruned, a
\* smali file rewritten, libraries copied and a file_paths.xml rewritten.
C17_Witness ==
    /\ pc = "step11"
    /\ HeaderCount(10) = 1
    /\ <<"manifest">> \in written
    /\ \E w \in written : w[1] = "vm"
    /\ \E w \in written : w[1] = "file_paths"
    /\ copied # {}

\* C19 (as stated): when the patch step starts, libFirebaseCppApp.so in the
\* working directory is a copy of the base.apk of the run's input.
C19_LibraryIsCopyOfExtractedBase ==
    pc = "patch_archs"
        => /\ cwd["base.apk"] = "base.apk"
           /\ cwd["libFirebaseCppApp.so"] = "base.apk"

\* C20 (as stated): the progress counter never exceeds total_steps, no step
\* is executed twice, and at the end of a run each of the eleven steps was
\* executed once and the counter equals total_steps.
C20_ElevenStepsOnceEach ==
    /\ progress_n <= total_steps
    /\ \A n \in 1..total_steps : HeaderCount(n) <= 1
    /\ pc = "done" => /\ progress_n = total_steps
                      /\ \A n \in 1..total_steps : HeaderCount(n) = 1

\* C21 (as stated): a spinner runs only while the smali loop of patch_files
\* is in progress: wherever else the run is, and however it ended, the stop
\* event of every spinner started has been set, and the process is never
\* left waiting for a spinner.
C21_EverySpinnerIsStopped ==
    /\ pc # "patch_smali" => spinner.running = {}
    /\ pc # "hung"

\* C22 (as stated): the input .apks and the required jars of the input's
\* directory are as they were before the run, at every point of every run.
C22_InputAndJarsUntouched ==
    /\ original.apks = "apks"
    /\ original.jars = host.jars

\* C23 (as stated): once process_apk has produced <base_name>-patched.apk,
\* the file is there until the end of the script: no cleanup deletes it.
C23_FinalOutputSurvivesCleanup ==
    (pc \in {"finish", "done"} \/ (pc = "exit" /\ exit_at = "finish"))
        => FinalOutput # Absent

====
